---- MODULE Spec2Model ----
(***************************************************************************)
(* Verification model of the Zen Machine simulation core:                  *)
(*   - AdversaryModule   (zen_machine/adversary_module/adversary.py)       *)
(*   - SimulationEngine  (zen_machine/core/simulation.py)                  *)
(*                                                                         *)
(* Units.  Deception bits are counted in hundredths of a bit (0.1 bit =    *)
(* 10, the default budget 0.25 = 25).  The wall clock (datetime.utcnow)    *)
(* is counted in hours; an hour h falls on UTC date h \div 24.             *)
(* Temperature and rain are in tenths (of a degree C, of a mm), traffic    *)
(* changes in percent.  Money is in mills (1/1000 of a currency unit).     *)
(***************************************************************************)
EXTENDS Integers, Sequences, FiniteSets, TLC

VARIABLES
    now,                   \* wall clock, datetime.utcnow(), in hours
    deception_budget,      \* AdversaryConfig.deception_budget
    daily_deception_bits,  \* AdversaryModule.daily_deception_bits
    last_reset,            \* AdversaryModule.last_reset
    ethics_ledger,         \* AdversaryModule.ethics_ledger
    tamper_count,          \* AdversaryModule.tamper_count
    last_tamper_time,      \* AdversaryModule.last_tamper_time
    environmental_changes, \* AdversaryModule.environmental_changes
    lastCall,              \* observation of the most recent adversary call
    config,                \* SimulationEngine.config
    pc,                    \* position of run_simulation
    current_time,          \* run_simulation's current_time, minutes from start_date
    states,                \* SimulationEngine.states
    engine_ledger,         \* SimulationEngine.ethics_ledger
    metrics,               \* SimulationEngine.metrics
    lastTick,              \* observation of the most recent tick
    det,                   \* two runs of one configuration, side by side
    zen,                   \* observation of the most recent make_decision call
    tasks,                 \* coroutines calling one AdversaryModule on one loop
    bids,                  \* OrderBook.bids
    asks,                  \* OrderBook.asks
    trades,                \* the trades the most recent add_order returned
    requests,              \* RateLimiter.requests
    granted                \* per identifier, the times is_allowed returned True

advVars == <<deception_budget, daily_deception_bits, last_reset, ethics_ledger,
             tamper_count, last_tamper_time, environmental_changes>>

\* the observations of the components that are checked on their own
libVars == <<bids, asks, trades, requests, granted>>

sideVars == <<zen, tasks, libVars>>

engVars ==
    <<config, pc, current_time, states, engine_ledger, metrics, lastTick, det,
      sideVars>>

vars == <<now, advVars, lastCall, engVars>>

----------------------------------------------------------------------------
(* Bounds of the model *)

MaxNow == 25
MaxLedger == 3
MaxEnd == 30
MaxStates == 3

(* Program constants *)

HoursPerDay == 24
ChangeCost == 10
TamperCost == 10
SpikeCost == 10
TamperGapHours == 1
TemperatureChangeLimit == 3
RainChangeLimit == 10
TrafficChangeLimit == 10

(* Inputs *)

Budgets == {15, 25}
StartHours == {23}
ClockSteps == {1, 2}

\* random.uniform(-limit, limit) for temperature, rain and traffic: the two
\* extreme draws of each
UniformDraws ==
    {<<0 - TemperatureChangeLimit, 0 - RainChangeLimit, 0 - TrafficChangeLimit>>,
     <<TemperatureChangeLimit, RainChangeLimit, TrafficChangeLimit>>}

Env(t, r, c) == [temperature_c |-> t, rain_mm |-> r, traffic_count |-> c]

EnvInputs == {Env(450, 500, 300), Env(-100, 5, 0)}

NoEnv == Env(0, 0, 0)

----------------------------------------------------------------------------
(* Helpers *)

Max(a, b) == IF a >= b THEN a ELSE b
Min(a, b) == IF a <= b THEN a ELSE b

DateOf(t) == t \div HoursPerDay

LedgerEntry(ts, action, bits) ==
    [timestamp |-> ts, agent |-> "adversary", action_type |-> action,
     deception_bits |-> bits, detected |-> FALSE]

\* the new entry is put in front of the entries already logged
LogEthicsEntryAtFront(ledger, action, bits) ==
    <<LedgerEntry(now, action, bits)>> \o ledger

\* _log_ethics_entry: self.ethics_ledger.append(entry), the entry stamped
\* with utcnow()
LogEthicsEntry(ledger, action, bits) ==
    Append(ledger, LedgerEntry(now, action, bits))

\* _reset_daily_budget: does the lazy reset fire at this call?
ResetDueLaterTime == now > last_reset

ResetDue == DateOf(now) > DateOf(last_reset)

\* _can_tamper_message: more than an hour since last_tamper_time
CanTamperMessage == now - last_tamper_time > TamperGapHours

\* is this the first budget-consuming call since the UTC date moved past the
\* date of the last reset?
NextAfterRollover ==
    /\ ResetDue
    /\ (lastCall.op = "none" \/ DateOf(now) > DateOf(lastCall.time))

\* no message was passed
NoMessage == [quote_price |-> 0, quote_delivery_day |-> 0]

NoCall == [op |-> "none", time |-> 0, rolled |-> FALSE,
           next_after_rollover |-> FALSE, budget_declined |-> FALSE,
           applied |-> FALSE, used_at_check |-> 0, charged |-> 0,
           used_after |-> 0, ledger_before |-> 0,
           env_in |-> NoEnv, env_out |-> NoEnv,
           env_after |-> NoEnv, env_returned |-> "none",
           tamper_count_before |-> 0, msg_in |-> NoMessage,
           msg_out |-> NoMessage, msg_after |-> NoMessage]

----------------------------------------------------------------------------
(* _apply_environmental_changes as a function of the three rolls and the   *)
(* three uniform draws.  rolls[i] is the outcome of random.random() < p    *)
(* for temperature, rain and traffic; avail is available_bits on entry.    *)

\* the budget gate of one change: "and available_bits > 0.1"
ChangeGateLoose(avail) == avail > 0
ChangeGate(avail) == avail > ChangeCost

ChangeT(rolls, avail) == rolls[1] /\ ChangeGate(avail)
AvailAfterT(rolls, avail) ==
    IF ChangeT(rolls, avail) THEN avail - ChangeCost ELSE avail
ChangeR(rolls, avail) == rolls[2] /\ ChangeGate(AvailAfterT(rolls, avail))
AvailAfterR(rolls, avail) ==
    IF ChangeR(rolls, avail) THEN AvailAfterT(rolls, avail) - ChangeCost
    ELSE AvailAfterT(rolls, avail)
ChangeC(rolls, avail) == rolls[3] /\ ChangeGate(AvailAfterR(rolls, avail))

\* len(changes_made)
ChangesMade(rolls, avail) ==
    (IF ChangeT(rolls, avail) THEN 1 ELSE 0)
    + (IF ChangeR(rolls, avail) THEN 1 ELSE 0)
    + (IF ChangeC(rolls, avail) THEN 1 ELSE 0)

\* the environment _apply_environmental_changes returns (a copy of env with
\* the drawn deltas applied), for available_bits > 0
ApplyEnvironmentalChanges(env, rolls, avail, u) ==
    [temperature_c |->
        IF ChangeT(rolls, avail) THEN env.temperature_c + u[1]
        ELSE env.temperature_c,
     rain_mm |->
        IF ChangeR(rolls, avail) THEN Max(0, env.rain_mm + u[2])
        ELSE env.rain_mm,
     traffic_count |->
        IF ChangeC(rolls, avail)
        THEN Max(0, (env.traffic_count * (100 + u[3])) \div 100)
        ELSE env.traffic_count]

----------------------------------------------------------------------------
(* AdversaryModule.modify_environment, as called by its clients *)

\* the reset leaves the day's count as it was
ModUsedKept == daily_deception_bits

\* daily_deception_bits after the _reset_daily_budget() that opens the call
ModUsed == IF ResetDue THEN 0 ELSE daily_deception_bits

\* "if self.daily_deception_bits >= self.config.deception_budget: return"
ModDeclined == ModUsed >= deception_budget

ModAvail == deception_budget - ModUsed

ModChanges(rolls) == IF ModDeclined THEN 0 ELSE ChangesMade(rolls, ModAvail)

\* the environment the call returns
ModOut(env, rolls, u) ==
    IF ModDeclined THEN env
    ELSE ApplyEnvironmentalChanges(env, rolls, ModAvail, u)

\* the changes are written to the argument itself
ModifiedEnvAliased == "argument"

\* "modified_env = environment.copy()": the object the changes are written
\* to; every field of EnvironmentalData is a number, a bool or a datetime,
\* so the copy shares nothing with the argument
ModifiedEnv == "copy"

\* the object a call writes to and returns: the argument when it declines
ModWritten == IF ModDeclined THEN "argument" ELSE ModifiedEnv

\* the fields of the caller's object once the call has returned
ArgumentAfter(env, rolls, u) ==
    IF ModWritten = "argument" THEN ModOut(env, rolls, u) ELSE env

\* the ledger entry carries one change's cost whatever the number of changes
ChangeBitsFlat(n) == ChangeCost

\* deception_bits=0.1 * len(changes_made)
ChangeBits(n) == ChangeCost * n

\* the effect of one call on the module
ModifyEnvironmentCall(env, rolls, u) ==
    LET n == ModChanges(rolls) IN
    /\ last_reset' = IF ResetDue THEN now ELSE last_reset
    /\ tamper_count' = IF ResetDue THEN 0 ELSE tamper_count
    /\ environmental_changes' =
          (IF ResetDue THEN 0 ELSE environmental_changes) + n
    /\ daily_deception_bits' = ModUsed + ChangeCost * n
    /\ ethics_ledger' =
          IF n > 0
          THEN LogEthicsEntry(ethics_ledger, "environmental_modification",
                              ChangeBits(n))
          ELSE ethics_ledger
    /\ lastCall' = [op |-> "modify_environment", time |-> now, rolled |-> ResetDue,
                    next_after_rollover |-> NextAfterRollover,
                    budget_declined |-> ModDeclined,
                    applied |-> n > 0, used_at_check |-> ModUsed,
                    charged |-> ChangeCost * n,
                    used_after |-> ModUsed + ChangeCost * n,
                    ledger_before |-> Len(ethics_ledger),
                    env_in |-> env, env_out |-> ModOut(env, rolls, u),
                    env_after |-> ArgumentAfter(env, rolls, u),
                    env_returned |-> ModWritten,
                    tamper_count_before |-> tamper_count,
                    msg_in |-> NoMessage, msg_out |-> NoMessage,
                    msg_after |-> NoMessage]
    /\ UNCHANGED <<deception_budget, last_tamper_time>>

----------------------------------------------------------------------------
(* Data of a simulation run *)

\* config.sku_list: a long-life and a perishable SKU
sku_list ==
    [water |-> [msrp |-> 1500, cost |-> 500, shelf_life_days |-> 365],
     milk  |-> [msrp |-> 2000, cost |-> 750, shelf_life_days |-> 1]]

\* the ids of config.sku_list
SkuIds == DOMAIN config.sku_list

\* spoilage costs are kept in units of 1/SpoilScale mill, a common
\* denominator of the factors 0.01 / shelf_life_days
SpoilScale == 36500

InitialInventories == {[water |-> 2, milk |-> 25]}

SimulationConfig(inv) ==
    [start_date |-> 0, end_date |-> MaxEnd, tick_minutes |-> 15,
     random_seed |-> 42, sku_list |-> sku_list, initial_inventory |-> inv,
     adversary_budget |-> 25]

Configs == {SimulationConfig(inv) : inv \in InitialInventories}

DefaultConfig == SimulationConfig([water |-> 2, milk |-> 25])

\* SimulationMetrics()
NoMetrics ==
    [total_revenue |-> 0, total_costs |-> 0, total_spoilage_cost |-> 0,
     decision_count |-> 0, total_latency_ms |-> 0, uptime_ticks |-> 0,
     total_ticks |-> 0]

EmptyMap == [s \in {} |-> 0]

\* zen_decision = None
NoDecision ==
    [prices |-> EmptyMap, order |-> EmptyMap, expedite |-> FALSE,
     thought |-> "none"]

InventoryState(stock, days, rates) ==
    [stock_levels |-> stock, days_since_restock |-> days,
     spoilage_rates |-> rates]

\* the costs are added to the revenue
MarginPlusCosts(revenue, costs, spoilage) ==
    [num |-> (revenue + costs) * SpoilScale - spoilage, den |-> revenue]

\* gross_margin = num / (SpoilScale * den), den standing for max(revenue, 1e-6)
Margin(revenue, costs, spoilage) ==
    [num |-> (revenue - costs) * SpoilScale - spoilage, den |-> revenue]

\* the fields of a SimulationState that the engine reads again or reports in
\* sums; environment, zen_decision, store_quotes and sales of the state
\* appended last are in lastTick
SimulationState(ts, inv, revenue, costs, margin, spoilage) ==
    [timestamp |-> ts, inventory |-> inv, revenue |-> revenue,
     costs |-> costs, gross_margin |-> margin, spoilage_cost |-> spoilage]

NoInventory == InventoryState(EmptyMap, 0, EmptyMap)

NoTick ==
    [outcome |-> "none", timestamp |-> 0, states_before |-> 0,
     metrics_before |-> NoMetrics, provider_invoked |-> FALSE,
     provider_failed |-> FALSE, prev_inventory |-> NoInventory,
     base_environment |-> NoEnv, environment |-> NoEnv,
     zen_decision |-> NoDecision, store_quotes |-> EmptyMap,
     sales |-> EmptyMap]

\* no quote was produced
NoQuote ==
    [quote_price |-> 0, quote_delivery_day |-> 0, confidence |-> 0,
     reason |-> "none"]

\* no pair of runs is under way
NoDet == [stream |-> <<>>, run |-> <<>>]

\* make_decision has not been called
NoZen ==
    [inventory |-> NoInventory, path |-> "none", optimized |-> NoDecision,
     decision |-> NoDecision]

\* the callers that share one AdversaryModule
Callers == 1..3

\* a caller that has not called yet
NoTask ==
    [op |-> "none", pc |-> "none", applied |-> FALSE, used_at_check |-> 0,
     used_at_charge |-> 0, epoch |-> 0, submitted |-> 0, finished |-> 0]

\* no component has been exercised on its own
\* the identifiers that call one RateLimiter
Identifiers == {"a", "b"}

\* OrderBook.__init__ and RateLimiter.__init__
LibInit ==
    /\ bids = <<>>
    /\ asks = <<>>
    /\ trades = <<>>
    /\ requests = [k \in {} |-> 0]
    /\ granted = [k \in Identifiers |-> <<>>]

SideInit == zen = NoZen /\ tasks = [c \in Callers |-> NoTask] /\ LibInit

\* np.random.exponential(120) for dwell_sec; EnvironmentalData accepts at
\* most 600
DwellMax == 600
DwellDraws == {120, 601}

\* EnvironmentalData(...) raises a ValidationError
GenerateFails(dwell) == dwell > DwellMax

\* wall-clock latency of the make_decision call, in ms
LatencyDraws == {40}

\* np.random.poisson(expected_demand)
DemandDraws == {0, 3}

\* the demand drawn for each SKU in one tick
DemandVectors == {[s \in SkuIds |-> d] : d \in DemandDraws}

\* the environment _generate_environmental_data hands to a tick: the one at
\* the upper end of every validated range
GeneratedEnvs == {Env(450, 500, 300)}

\* the random.random() < p tests and random.uniform draws of one
\* modify_environment call inside a tick
AdversaryDraws ==
    {[rolls |-> <<FALSE, FALSE, FALSE>>,
      u |-> <<TemperatureChangeLimit, RainChangeLimit, TrafficChangeLimit>>],
     [rolls |-> <<TRUE, FALSE, FALSE>>,
      u |-> <<TemperatureChangeLimit, RainChangeLimit, TrafficChangeLimit>>]}

----------------------------------------------------------------------------
(* The decision provider *)

\* ZenAgent._fallback_decision
FallbackDecision(stock) ==
    [prices |-> [s \in SkuIds |->
                    IF stock[s] < 3 THEN (sku_list[s].msrp * 105) \div 100
                    ELSE IF stock[s] > 20 THEN (sku_list[s].msrp * 95) \div 100
                    ELSE sku_list[s].msrp],
     order |-> [s \in SkuIds |-> IF stock[s] < 10 THEN 20 - stock[s] ELSE 0],
     expedite |-> FALSE,
     thought |-> "Fallback heuristic"]

\* ZenDecision values another implementation of make_decision may hand to
\* the engine: the type puts no constraint on prices or order quantities
ProviderDecisions ==
    {[prices |-> [s \in SkuIds |-> sku_list[s].msrp],
      order |-> [s \in SkuIds |-> 0],
      expedite |-> FALSE, thought |-> "hold"],
     [prices |-> [s \in {"water"} |-> 1500],
      order |-> [water |-> -1, milk |-> 101],
      expedite |-> TRUE, thought |-> "restock"],
     [prices |-> [s \in SkuIds |-> sku_list[s].msrp],
      order |-> [s \in {"cola"} |-> 5],
      expedite |-> FALSE, thought |-> "unknown sku"]}

\* a failed pipeline hands over whatever it had produced
ProviderOutcomesUnguarded(stock) ==
    {[failed |-> f, decision |-> d] : f \in BOOLEAN, d \in ProviderDecisions}

\* what make_decision hands to _run_tick: ZenAgent's fallback when its
\* pipeline raised, or the decision the provider produced
ProviderOutcomes(stock) ==
    {[failed |-> TRUE, decision |-> FallbackDecision(stock)]}
    \cup {[failed |-> FALSE, decision |-> d] : d \in ProviderDecisions}

\* StoreQuote values the generate_quote of a store agent handed to the
\* engine returns from its try block: the type bounds only the confidence
QuoteInputs ==
    {[quote_price |-> 600, quote_delivery_day |-> 1, confidence |-> 90,
      reason |-> "Standard pricing applied"],
     [quote_price |-> 600, quote_delivery_day |-> 3, confidence |-> 90,
      reason |-> "Standard pricing applied"]}

\* _create_purchase_order, for an id found in the sku_list
PurchaseOrder(s, qty, decision) ==
    [sku |-> s, qty |-> qty, max_price |-> (sku_list[s].cost * 12) \div 10,
     requested_delivery_day |-> 2, urgency |-> decision.expedite]

\* _fallback_quote: "base_cost = 1.0  # Placeholder"
FallbackBaseCost == 1000

\* StoreAgent._fallback_quote
FallbackQuote(po) ==
    [quote_price |-> Min((FallbackBaseCost * 115) \div 100, po.max_price),
     quote_delivery_day |-> 3, confidence |-> 70,
     reason |-> "Fallback pricing applied"]

\* generate_quote for one tick: its try block returns a quote, or raises
\* and the except branch returns _fallback_quote
QuoteOutcomes ==
    {[failed |-> FALSE, quote |-> q] : q \in QuoteInputs}
    \cup {[failed |-> TRUE, quote |-> NoQuote]}

----------------------------------------------------------------------------
(* The bookkeeping of one tick *)

RECURSIVE SumOver(_, _)
SumOver(S, f) ==
    IF S = {} THEN 0
    ELSE LET x == CHOOSE y \in S : TRUE IN f[x] + SumOver(S \ {x}, f)

\* _run_tick: "if qty > 0" selects the order lines that get a quote
QuotedLine(qty) == qty > 0

OrderedSkus(order) == {s \in DOMAIN order : QuotedLine(order[s])}

\* store_quotes of _run_tick: one generate_quote call per line with qty > 0
StoreQuotes(o, decision) ==
    [s \in OrderedSkus(decision.order) |->
        IF o.failed
        THEN FallbackQuote(PurchaseOrder(s, decision.order[s], decision))
        ELSE o.quote]

\* the drawn demand is sold without regard to the stock
SimulateSalesUncapped(prices, stock, demand) ==
    [s \in SkuIds |->
        IF s \notin DOMAIN prices \/ stock[s] <= 0 THEN 0
        ELSE demand[s]]

\* _simulate_sales
SimulateSales(prices, stock, demand) ==
    [s \in SkuIds |->
        IF s \notin DOMAIN prices \/ stock[s] <= 0 THEN 0
        ELSE Min(demand[s], stock[s])]

\* every quoted order is added to the stock, whatever its delivery day
StockAfterDeliveryAnyDay(stock, sales, orders, quotes) ==
    [s \in DOMAIN stock |->
        LET sold == Max(0, stock[s] - sales[s]) IN
        IF s \in DOMAIN quotes
        THEN sold + orders[s]
        ELSE sold]

\* _update_inventory: stock after sales and deliveries
StockAfterDelivery(stock, sales, orders, quotes) ==
    [s \in DOMAIN stock |->
        LET sold == Max(0, stock[s] - sales[s]) IN
        IF s \in DOMAIN quotes /\ quotes[s].quote_delivery_day <= 1
        THEN sold + orders[s]
        ELSE sold]

\* int(daily_spoilage * stock), daily_spoilage = 0.01 * stock / shelf_life_days
SpoiledUnits(s, stock) == (stock * stock) \div (100 * sku_list[s].shelf_life_days)

\* new_stock[sku_id] = stock - int(daily_spoilage * stock), not clamped
StockAfterSpoilageUnclamped(s, stock) == stock - SpoiledUnits(s, stock)

\* new_stock[sku_id] = max(0, stock - int(daily_spoilage * stock))
StockAfterSpoilage(s, stock) == Max(0, stock - SpoiledUnits(s, stock))

\* any(orders.values())
AnyOrder(orders) == \E s \in DOMAIN orders : orders[s] # 0

\* the count grows whether or not an order was placed
DaysSinceRestockNoReset(prev_inventory, orders) ==
    prev_inventory.days_since_restock + config.tick_minutes

\* days_since_restock of the new inventory, in minutes (1/1440 day)
DaysSinceRestock(prev_inventory, orders) ==
    IF AnyOrder(orders) THEN 0
    ELSE prev_inventory.days_since_restock + config.tick_minutes

\* _update_inventory; spoilage_rates[s] is kept as the stock it is computed
\* from, the rate being that stock / (100 * shelf_life_days)
UpdateInventory(prev_inventory, sales, orders, quotes) ==
    LET delivered == StockAfterDelivery(prev_inventory.stock_levels, sales,
                                        orders, quotes)
    IN InventoryState(
         [s \in DOMAIN delivered |-> StockAfterSpoilage(s, delivered[s])],
         DaysSinceRestock(prev_inventory, orders),
         delivered)

\* _calculate_financials
Revenue(sales, prices) ==
    SumOver(DOMAIN sales \cap DOMAIN prices,
            [s \in DOMAIN sales \cap DOMAIN prices |-> sales[s] * prices[s]])

Costs(quotes) ==
    SumOver(DOMAIN quotes,
            [s \in DOMAIN quotes |->
                quotes[s].quote_price * quotes[s].quote_delivery_day])

SpoilageCost(inventory) ==
    SumOver(DOMAIN inventory.spoilage_rates,
            [s \in DOMAIN inventory.spoilage_rates |->
                inventory.spoilage_rates[s] * inventory.stock_levels[s]
                * sku_list[s].cost
                * (SpoilScale \div (100 * sku_list[s].shelf_life_days))])

----------------------------------------------------------------------------
\* AdversaryModule.__init__
AdversaryInit ==
    /\ now \in StartHours
    /\ deception_budget \in Budgets
    /\ daily_deception_bits = 0
    /\ last_reset = now
    /\ ethics_ledger = <<>>
    /\ tamper_count = 0
    /\ last_tamper_time = now
    /\ environmental_changes = 0
    /\ lastCall = NoCall

\* SimulationEngine.__init__
EngineInit(cfg) ==
    /\ config = cfg
    /\ pc = "new"
    /\ current_time = 0
    /\ states = <<>>
    /\ engine_ledger = <<>>
    /\ metrics = NoMetrics
    /\ lastTick = NoTick

\* an adversary module on its own (the engine is constructed, never run)
Init ==
    /\ AdversaryInit
    /\ EngineInit(DefaultConfig)
    /\ det = NoDet
    /\ SideInit

\* The wall clock moves on between calls.
AdvanceClock ==
    /\ \E d \in ClockSteps :
         /\ now + d <= MaxNow
         /\ now' = now + d
    /\ UNCHANGED <<advVars, lastCall, engVars>>

\* AdversaryModule.modify_environment(environment, budget)
ModifyEnvironment ==
    /\ Len(ethics_ledger) < MaxLedger
    /\ \E env \in EnvInputs, rolls \in [1..3 -> BOOLEAN], u \in UniformDraws :
          ModifyEnvironmentCall(env, rolls, u)
    /\ UNCHANGED <<now, engVars>>

\* the budget check of tamper_message:
\* "if self.daily_deception_bits + deception_bits > self.config.deception_budget"
TamperOverBudget == daily_deception_bits + TamperCost > deception_budget

\* store_quote messages handed to tamper_message
Messages == {[quote_price |-> 600, quote_delivery_day |-> 8]}

\* the draws of _apply_message_tampering for a store_quote: which branch the
\* two random.random() tests select, and the uniform draw in percent
TamperDraws ==
    {[branch |-> "eta", pct |-> 25], [branch |-> "price", pct |-> 5],
     [branch |-> "none", pct |-> 0]}

\* a zen_decision message: a dict whose prices and order are dicts
ZenMessages == {[prices |-> [water |-> 1500], order |-> [water |-> 5]]}

\* the draws of _apply_message_tampering for a zen_decision: the branch, and
\* in pct the price change in percent or the random.randint(-1, 1) added to
\* the quantities
ZenTamperDraws ==
    {[branch |-> "prices", pct |-> 2], [branch |-> "order", pct |-> -1]}

\* message_type, and the draws that belong to it
MessageType(message) ==
    IF "prices" \in DOMAIN message THEN "zen_decision" ELSE "store_quote"

DrawsFor(message) ==
    IF MessageType(message) = "zen_decision" THEN ZenTamperDraws
    ELSE TamperDraws

\* round(x, 2) of an amount given in tenths of a mill
Round2(x) == ((x + 50) \div 100) * 10

\* _apply_message_tampering: the message it returns
ApplyMessageTampering(message, d) ==
    IF d.branch = "prices"
    THEN [message EXCEPT !.prices =
             [s \in DOMAIN @ |-> Round2((@[s] * (100 + d.pct)) \div 10)]]
    ELSE IF d.branch = "order"
    THEN [message EXCEPT !.order = [s \in DOMAIN @ |-> Max(0, @[s] + d.pct)]]
    ELSE IF d.branch = "eta"
    THEN [message EXCEPT !.quote_delivery_day = (@ * (100 + d.pct)) \div 100]
    ELSE IF d.branch = "price"
    THEN [message EXCEPT !.quote_price = Round2((@ * (100 + d.pct)) \div 10)]
    ELSE message

\* "tampered = message.copy()" is a shallow copy: a value that is itself a
\* dict is the same object in the argument and in the copy
SharedValues(message) == DOMAIN message \cap {"prices", "order"}

\* the caller's message once _apply_message_tampering has returned out: an
\* assignment to a key of the copy is not seen through the argument, an
\* assignment into a shared dict is
MessageAfter(message, out) ==
    [k \in DOMAIN message |->
        IF k \in SharedValues(message) THEN out[k] ELSE message[k]]

\* every field of the message counts as 0.1 bit
CalculateMessageTamperBitsPerField(message) ==
    TamperCost * Cardinality(DOMAIN message)

\* _calculate_message_tamper_bits: "return 0.1"
CalculateMessageTamperBits(message) == TamperCost

\* AdversaryModule.tamper_message(message, message_type)
TamperMessage ==
    /\ Len(ethics_ledger) < MaxLedger
    /\ \E message \in Messages \cup ZenMessages :
       \E d \in DrawsFor(message) :
         LET bits     == CalculateMessageTamperBits(message)
             limited  == ~CanTamperMessage
             declined == ~limited
                         /\ daily_deception_bits + bits > deception_budget
             applied  == ~limited /\ ~declined
         IN
         /\ ethics_ledger' =
               IF applied
               THEN LogEthicsEntry(ethics_ledger, "message_tamper", bits)
               ELSE ethics_ledger
         /\ tamper_count' = IF applied THEN tamper_count + 1 ELSE tamper_count
         /\ daily_deception_bits' =
               IF applied THEN daily_deception_bits + bits
               ELSE daily_deception_bits
         /\ lastCall' =
               [op |-> "tamper_message", time |-> now, rolled |-> ResetDue,
                next_after_rollover |-> NextAfterRollover,
                budget_declined |-> declined, applied |-> applied,
                used_at_check |-> daily_deception_bits,
                charged |-> IF applied THEN bits ELSE 0,
                used_after |-> daily_deception_bits',
                ledger_before |-> Len(ethics_ledger),
                env_in |-> NoEnv, env_out |-> NoEnv,
                env_after |-> NoEnv, env_returned |-> "none",
                tamper_count_before |-> tamper_count,
                msg_in |-> message,
                msg_out |-> IF applied THEN ApplyMessageTampering(message, d)
                            ELSE message,
                msg_after |->
                    IF applied
                    THEN MessageAfter(message,
                                      ApplyMessageTampering(message, d))
                    ELSE message]
    /\ UNCHANGED <<now, deception_budget, last_reset, last_tamper_time,
                   environmental_changes, engVars>>

\* the budget check of create_latency_spike:
\* "if self.daily_deception_bits >= self.config.deception_budget"
SpikeDeclined == daily_deception_bits >= deception_budget

\* AdversaryModule.create_latency_spike()
CreateLatencySpike ==
    /\ Len(ethics_ledger) < MaxLedger
    /\ ethics_ledger' =
          IF SpikeDeclined THEN ethics_ledger
          ELSE LogEthicsEntry(ethics_ledger, "latency_spike", SpikeCost)
    /\ daily_deception_bits' =
          IF SpikeDeclined THEN daily_deception_bits
          ELSE daily_deception_bits + SpikeCost
    /\ lastCall' = [op |-> "create_latency_spike", time |-> now, rolled |-> ResetDue,
                    next_after_rollover |-> NextAfterRollover,
                    budget_declined |-> SpikeDeclined,
                    applied |-> ~SpikeDeclined,
                    used_at_check |-> daily_deception_bits,
                    charged |-> IF SpikeDeclined THEN 0 ELSE SpikeCost,
                    used_after |-> daily_deception_bits',
                    ledger_before |-> Len(ethics_ledger),
                    env_in |-> NoEnv, env_out |-> NoEnv,
                    env_after |-> NoEnv, env_returned |-> "none",
                    tamper_count_before |-> tamper_count,
                    msg_in |-> NoMessage, msg_out |-> NoMessage,
                    msg_after |-> NoMessage]
    /\ UNCHANGED <<now, deception_budget, last_reset, tamper_count,
                   last_tamper_time, environmental_changes, engVars>>

Next ==
    \/ AdvanceClock
    \/ ModifyEnvironment
    \/ TamperMessage
    \/ CreateLatencySpike

Spec == Init /\ [][Next]_vars

----------------------------------------------------------------------------
(* SimulationEngine.run_simulation *)

\* every tick computes from the initial state
PrevStateInitial == states[1]

\* prev_state = self.states[-1]
PrevState == states[Len(states)]

\* run_simulation up to the loop: the initial state is built outside the
\* try block, so a failing EnvironmentalData(...) leaves the call
StartRun ==
    /\ pc = "new"
    /\ \E dwell \in DwellDraws :
         IF GenerateFails(dwell)
         THEN /\ pc' = "raised"
              /\ UNCHANGED <<states, lastTick>>
         ELSE \E base \in GeneratedEnvs :
              /\ pc' = "loop"
              /\ states' = Append(states,
                     SimulationState(config.start_date,
                         InventoryState(config.initial_inventory, 0,
                                        [s \in SkuIds |-> 0]),
                         0, 0, Margin(0, 0, 0), 0))
              /\ lastTick' = [NoTick EXCEPT !.outcome = "initial",
                                            !.timestamp = config.start_date,
                                            !.environment = base]
    /\ UNCHANGED <<now, advVars, lastCall, config, current_time,
                   engine_ledger, metrics, det, sideVars>>

\* _create_purchase_order: next(s for s in sku_list if s.id == sku_id) finds
\* no SKU for an ordered id and raises
PurchaseOrderFails(order) == \E s \in OrderedSkus(order) : s \notin SkuIds

\* every appended tick counts as up
UptimeCheckAlways(margin) == TRUE

\* "if new_state.gross_margin >= 0"
UptimeCheck(margin) == margin.num >= 0

\* the costs of the tick are left out of total_costs
TickMetricsWithoutCosts(revenue, costs, spoilage, margin, latency) ==
    [total_revenue |-> metrics.total_revenue + revenue,
     total_costs |-> metrics.total_costs,
     total_spoilage_cost |-> metrics.total_spoilage_cost + spoilage,
     decision_count |-> metrics.decision_count + 1,
     total_latency_ms |-> metrics.total_latency_ms + latency,
     uptime_ticks |-> IF UptimeCheck(margin)
                      THEN metrics.uptime_ticks + 1
                      ELSE metrics.uptime_ticks,
     total_ticks |-> metrics.total_ticks + 1]

\* the metrics after a tick that was appended: "Update metrics" at the end of
\* _run_tick, and total_ticks and uptime_ticks in the loop body
TickMetrics(revenue, costs, spoilage, margin, latency) ==
    [total_revenue |-> metrics.total_revenue + revenue,
     total_costs |-> metrics.total_costs + costs,
     total_spoilage_cost |-> metrics.total_spoilage_cost + spoilage,
     decision_count |-> metrics.decision_count + 1,
     total_latency_ms |-> metrics.total_latency_ms + latency,
     uptime_ticks |-> IF UptimeCheck(margin)
                      THEN metrics.uptime_ticks + 1
                      ELSE metrics.uptime_ticks,
     total_ticks |-> metrics.total_ticks + 1]

\* _run_tick from the quotes to the returned state, and the append and the
\* counters of the loop body
TickSucceeds(ts, base, environment, p, quotes, demand, latency) ==
    LET prev        == PrevState
        decision    == p.decision
        sales       == SimulateSales(decision.prices,
                                     prev.inventory.stock_levels, demand)
        inventory   == UpdateInventory(prev.inventory, sales, decision.order,
                                       quotes)
        revenue     == Revenue(sales, decision.prices)
        costs       == Costs(quotes)
        spoilage    == SpoilageCost(inventory)
        margin      == Margin(revenue, costs, spoilage)
    IN
    /\ engine_ledger' = engine_ledger \o ethics_ledger'
    /\ states' = Append(states,
           SimulationState(ts, inventory, revenue, costs, margin, spoilage))
    /\ metrics' = TickMetrics(revenue, costs, spoilage, margin, latency)
    /\ lastTick' =
           [outcome |-> "appended", timestamp |-> ts,
            states_before |-> Len(states), metrics_before |-> metrics,
            provider_invoked |-> TRUE, provider_failed |-> p.failed,
            prev_inventory |-> prev.inventory,
            base_environment |-> base, environment |-> environment,
            zen_decision |-> decision, store_quotes |-> quotes,
            sales |-> sales]

\* the except branch also counts the tick
TickSkippedKeepsCounting(ts, invoked, failed) ==
    /\ lastTick' = [NoTick EXCEPT !.outcome = "skipped", !.timestamp = ts,
                                  !.states_before = Len(states),
                                  !.metrics_before = metrics,
                                  !.provider_invoked = invoked,
                                  !.provider_failed = failed]
    /\ metrics' = [metrics EXCEPT !.total_ticks = @ + 1]
    /\ UNCHANGED <<states, engine_ledger>>

\* _run_tick raised: the except branch of the loop logs and continues
TickSkipped(ts, invoked, failed) ==
    /\ lastTick' = [NoTick EXCEPT !.outcome = "skipped", !.timestamp = ts,
                                  !.states_before = Len(states),
                                  !.metrics_before = metrics,
                                  !.provider_invoked = invoked,
                                  !.provider_failed = failed]
    /\ UNCHANGED <<states, engine_ledger, metrics>>

\* the loop also runs once more when current_time has reached end_date
LoopContinuesInclusive == current_time <= config.end_date

\* "while current_time < self.config.end_date"
LoopContinues == current_time < config.end_date

\* one iteration of the loop
RunTick ==
    /\ pc = "loop"
    /\ LoopContinues
    /\ current_time' = current_time + config.tick_minutes
    /\ \E dwell \in DwellDraws :
         IF GenerateFails(dwell)
         THEN /\ TickSkipped(current_time', FALSE, FALSE)
              /\ UNCHANGED <<advVars, lastCall>>
         ELSE \E base \in GeneratedEnvs, a \in AdversaryDraws,
                 p \in ProviderOutcomes(PrevState.inventory.stock_levels) :
              /\ ModifyEnvironmentCall(base, a.rolls, a.u)
              /\ IF PurchaseOrderFails(p.decision.order)
                 THEN TickSkipped(current_time', TRUE, p.failed)
                 ELSE \E o \in QuoteOutcomes, demand \in DemandVectors,
                         latency \in LatencyDraws :
                      TickSucceeds(current_time', base,
                                   ModOut(base, a.rolls, a.u), p,
                                   StoreQuotes(o, p.decision),
                                   demand, latency)
    /\ UNCHANGED <<now, config, pc, det, sideVars>>

\* the loop ends and _compile_results builds the SimulationResult
Finish ==
    /\ pc = "loop"
    /\ ~LoopContinues
    /\ pc' = "done"
    /\ UNCHANGED <<now, advVars, lastCall, config, current_time, states,
                   engine_ledger, metrics, lastTick, det, sideVars>>

\* a freshly constructed engine, with the adversary the command line builds
\* for it: AdversaryConfig(deception_budget=adversary_budget)
InitRun ==
    /\ AdversaryInit
    /\ \E cfg \in Configs :
         /\ EngineInit(cfg)
         /\ deception_budget = cfg.adversary_budget
    /\ det = NoDet
    /\ SideInit

NextRun ==
    \/ AdvanceClock
    \/ StartRun
    \/ RunTick
    \/ Finish

SpecRun == InitRun /\ [][NextRun]_vars

----------------------------------------------------------------------------
(* Construction of a configuration and a run on it *)

\* the fields of SimulationConfig without a default
RequiredFields == {"start_date", "end_date", "sku_list", "initial_inventory"}

\* SimulationConfig(**raw): pydantic checks that the required fields are
\* there and that the values have the declared types; no field carries a
\* constraint on its value
ConfigAccepted(raw) == RequiredFields \subseteq DOMAIN raw

\* the keyword arguments a caller may construct a SimulationConfig from
RawConfigs ==
    {DefaultConfig,
     [DefaultConfig EXCEPT !.tick_minutes = 0],
     [DefaultConfig EXCEPT !.tick_minutes = 0 - 15],
     [DefaultConfig EXCEPT !.sku_list = EmptyMap,
                           !.initial_inventory = EmptyMap],
     [start_date |-> 0, end_date |-> MaxEnd, tick_minutes |-> 15]}

\* no configuration has been constructed yet
NoConfig == [tick_minutes |-> 0, sku_list |-> EmptyMap]

\* SimulationConfig(...) followed by SimulationEngine(config, ...)
Construct ==
    /\ pc = "unbuilt"
    /\ \E raw \in RawConfigs :
         IF ConfigAccepted(raw)
         THEN config' = raw /\ pc' = "new"
         ELSE config' = config /\ pc' = "rejected"
    /\ UNCHANGED <<now, advVars, lastCall, current_time, states,
                   engine_ledger, metrics, lastTick, det, sideVars>>

\* the loop body, observed for a bounded number of states and as long as
\* current_time has not fallen below -end_date
RunTickObserved ==
    /\ Len(states) < MaxStates
    /\ current_time > 0 - MaxEnd
    /\ RunTick

InitCfg ==
    /\ AdversaryInit
    /\ deception_budget = DefaultConfig.adversary_budget
    /\ config = NoConfig
    /\ pc = "unbuilt"
    /\ current_time = 0
    /\ states = <<>>
    /\ engine_ledger = <<>>
    /\ metrics = NoMetrics
    /\ lastTick = NoTick
    /\ det = NoDet
    /\ SideInit

NextCfg ==
    \/ Construct
    \/ StartRun
    \/ RunTickObserved
    \/ Finish

SpecCfg == InitCfg /\ [][NextCfg]_vars

----------------------------------------------------------------------------
(* A run on an adversary that was built apart from the run's configuration *)

\* SimulationEngine(config, ..., adversary, ...): the engine keeps the module
\* it is given, whose AdversaryConfig need not carry config.adversary_budget
InitInjected ==
    /\ AdversaryInit
    /\ EngineInit([DefaultConfig EXCEPT !.adversary_budget = 15])
    /\ det = NoDet
    /\ SideInit

NextInjected ==
    \/ StartRun
    \/ RunTick
    \/ Finish

SpecInjected == InitInjected /\ [][NextInjected]_vars

----------------------------------------------------------------------------
(* The schedule of run_simulation for several tick lengths *)

\* tick lengths that do and do not divide the span of the run
TickLengths == {20, 30, 40}

InitSched ==
    /\ AdversaryInit
    /\ \E t \in TickLengths :
         EngineInit([DefaultConfig EXCEPT !.tick_minutes = t])
    /\ deception_budget = DefaultConfig.adversary_budget
    /\ det = NoDet
    /\ SideInit

NextSched ==
    \/ StartRun
    \/ RunTick
    \/ Finish

\* run_simulation is sequential code: once called it builds the initial
\* state, runs every loop iteration that is due and returns
SpecSched ==
    /\ InitSched
    /\ [][NextSched]_vars
    /\ WF_vars(StartRun)
    /\ WF_vars(RunTick)
    /\ WF_vars(Finish)

----------------------------------------------------------------------------
(* ZenAgent.make_decision on its own *)

\* ZenAgentConfig.price_bounds, in percent of MSRP, and max_order_qty
PriceBoundLow == 95
PriceBoundHigh == 105
MaxOrderQty == 99

\* stock levels on both sides of every threshold of the heuristics
StockLevels == {0, 2, 3, 4, 5, 9, 10, 20, 21, 25}

\* the inventories make_decision is called with
ZenInventories ==
    {InventoryState(stock, 0, [s \in SkuIds |-> 0]) :
        stock \in [SkuIds -> StockLevels]}

\* premium pricing at 1.10 x MSRP
HeuristicSolutionSteep(stock) ==
    [prices |-> [s \in SkuIds |->
                    IF stock[s] < 5 THEN (sku_list[s].msrp * 110) \div 100
                    ELSE IF stock[s] > 20 THEN (sku_list[s].msrp * 95) \div 100
                    ELSE sku_list[s].msrp],
     orders |-> [s \in SkuIds |->
                    Min(Max(0, 15 - stock[s] + 10), MaxOrderQty)]]

\* OptimizationEngine._heuristic_solution
HeuristicSolution(stock) ==
    [prices |-> [s \in SkuIds |->
                    IF stock[s] < 5 THEN (sku_list[s].msrp * 105) \div 100
                    ELSE IF stock[s] > 20 THEN (sku_list[s].msrp * 95) \div 100
                    ELSE sku_list[s].msrp],
     orders |-> [s \in SkuIds |->
                    Min(Max(0, 15 - stock[s] + 10), MaxOrderQty)]]

\* OptimizationEngine._should_expedite; the spoilage risk
\* sum(spoilage_rate * stock) > 5.0 is compared in units of 1/SpoilScale
ShouldExpedite(inventory, orders) ==
    /\ AnyOrder(orders)
    /\ \/ \E s \in DOMAIN inventory.stock_levels :
             /\ inventory.stock_levels[s] < 3
             /\ s \in DOMAIN orders
             /\ orders[s] > 0
       \/ SumOver(DOMAIN inventory.stock_levels,
                  [s \in DOMAIN inventory.stock_levels |->
                      inventory.spoilage_rates[s] * inventory.stock_levels[s]
                      * (SpoilScale \div (100 * sku_list[s].shelf_life_days))])
             > 5 * SpoilScale

\* OptimizationEngine.optimize when the solver yields no solution
OptimizedDecision(inventory) ==
    LET solution == HeuristicSolution(inventory.stock_levels) IN
    [prices |-> solution.prices, order |-> solution.orders,
     expedite |-> ShouldExpedite(inventory, solution.orders),
     thought |-> "optimized"]

\* OptimizationEngine._fallback_decision
OptimizerFallback(stock) ==
    [prices |-> [s \in SkuIds |-> sku_list[s].msrp],
     order |-> [s \in SkuIds |-> Max(0, 10 - stock[s])],
     expedite |-> FALSE,
     thought |-> "Fallback: restock to 10"]

\* how far the pipeline of make_decision gets: the LLM call raises; building
\* the optimization problem raises; the solver returns no solution.  The
\* dummy problem of _solve_with_timeout never yields values for the price
\* variables, so no solver solution is ever returned.
ZenPaths == {"llm_raised", "problem_raised", "solver_none"}

\* the decision optimize hands back to make_decision
Optimized(inventory, path) ==
    IF path = "llm_raised" THEN NoDecision
    ELSE IF path = "problem_raised"
         THEN OptimizerFallback(inventory.stock_levels)
         ELSE OptimizedDecision(inventory)

\* ZenAgent.make_decision: _update_memory refers to timedelta, which the
\* module does not import, so every call ends in the except branch
MakeDecision ==
    /\ \E inventory \in ZenInventories, path \in ZenPaths :
         zen' = [inventory |-> inventory, path |-> path,
                 optimized |-> Optimized(inventory, path),
                 decision |-> FallbackDecision(inventory.stock_levels)]
    /\ UNCHANGED <<now, advVars, lastCall, config, pc, current_time, states,
                   engine_ledger, metrics, lastTick, det, tasks, libVars>>

InitZen ==
    /\ AdversaryInit
    /\ deception_budget = DefaultConfig.adversary_budget
    /\ EngineInit(DefaultConfig)
    /\ det = NoDet
    /\ SideInit

NextZen == MakeDecision

SpecZen == InitZen /\ [][NextZen]_vars

----------------------------------------------------------------------------
(* Concurrent callers of one AdversaryModule.  The three budget-consuming  *)
(* operations are coroutines ("async def"); callers are tasks of one event *)
(* loop, which switches tasks only where a running coroutine suspends in   *)
(* an await.                                                               *)

BudgetOps == {"modify_environment", "tamper_message", "create_latency_spike"}

\* the operation suspends in an await after its budget check: the sleep of
\* create_latency_spike is awaited, and before the charge
AwaitsBeforeChargeSpike(op) == op = "create_latency_spike"

\* the operation suspends between its budget check and its charge: none of
\* the three bodies contains an await, and create_latency_spike sleeps in
\* the blocking time.sleep, after its charge
AwaitsBeforeCharge(op) == FALSE

OpCost(op) == IF op = "tamper_message" THEN TamperCost ELSE SpikeCost

\* the checks that make tamper_message and create_latency_spike return early
OpDeclined(op) ==
    IF op = "tamper_message" THEN ~CanTamperMessage \/ TamperOverBudget
    ELSE SpikeDeclined

OpAction(op) ==
    IF op = "tamper_message" THEN "message_tamper" ELSE "latency_spike"

SubmittedTasks == {c \in Callers : tasks[c].pc # "none"}

FinishedTasks == {c \in Callers : tasks[c].pc = "done"}

\* the call returns; epoch is the last_reset it ran under
TaskDone(c, applied, seen, at, epoch) ==
    [tasks EXCEPT ![c] = [@ EXCEPT !.pc = "done", !.applied = applied,
                                   !.used_at_check = seen,
                                   !.used_at_charge = at,
                                   !.epoch = epoch,
                                   !.finished = Cardinality(FinishedTasks) + 1]]

\* _log_ethics_entry(...) and "self.daily_deception_bits += deception_bits"
\* of tamper_message and create_latency_spike, seen having been the usage
\* at the check
Charge(c, seen) ==
    LET op == tasks[c].op IN
    /\ ethics_ledger' = LogEthicsEntry(ethics_ledger, OpAction(op), OpCost(op))
    /\ tamper_count' = IF op = "tamper_message" THEN tamper_count + 1
                       ELSE tamper_count
    /\ daily_deception_bits' = daily_deception_bits + OpCost(op)
    /\ UNCHANGED <<deception_budget, last_reset, last_tamper_time,
                   environmental_changes, lastCall>>
    /\ tasks' = TaskDone(c, TRUE, seen, daily_deception_bits, last_reset)

\* asyncio.gather / create_task: a caller's coroutine is scheduled
SubmitTask ==
    /\ \E c \in Callers, op \in BudgetOps :
         /\ tasks[c].pc = "none"
         /\ tasks' = [tasks EXCEPT ![c] =
                        [NoTask EXCEPT !.op = op, !.pc = "pending",
                             !.submitted = Cardinality(SubmittedTasks) + 1]]
    /\ UNCHANGED <<now, advVars, lastCall, config, pc, current_time, states,
                   engine_ledger, metrics, lastTick, det, zen, libVars>>

\* the event loop runs one task up to its next suspension or its return
RunTask ==
    /\ Len(ethics_ledger) < MaxLedger
    /\ \E c \in Callers :
         LET op == tasks[c].op IN
         /\ tasks[c].pc \in {"pending", "suspended"}
         /\ IF tasks[c].pc = "suspended"
            THEN Charge(c, tasks[c].used_at_check)
            ELSE IF op = "modify_environment"
            THEN \E env \in EnvInputs, a \in AdversaryDraws :
                   /\ ModifyEnvironmentCall(env, a.rolls, a.u)
                   /\ tasks' = TaskDone(c, ModChanges(a.rolls) > 0, ModUsed,
                                        ModUsed,
                                        IF ResetDue THEN now ELSE last_reset)
            ELSE IF OpDeclined(op)
            THEN /\ tasks' = TaskDone(c, FALSE, daily_deception_bits,
                                      daily_deception_bits, last_reset)
                 /\ UNCHANGED <<advVars, lastCall>>
            ELSE IF AwaitsBeforeCharge(op)
            THEN /\ tasks' = [tasks EXCEPT ![c] =
                                 [@ EXCEPT !.pc = "suspended",
                                     !.used_at_check = daily_deception_bits]]
                 /\ UNCHANGED <<advVars, lastCall>>
            ELSE Charge(c, daily_deception_bits)
    /\ UNCHANGED <<now, config, pc, current_time, states, engine_ledger,
                   metrics, lastTick, det, zen, libVars>>

InitConc ==
    /\ AdversaryInit
    /\ EngineInit(DefaultConfig)
    /\ det = NoDet
    /\ SideInit

NextConc ==
    \/ AdvanceClock
    \/ SubmitTask
    \/ RunTask

SpecConc == InitConc /\ [][NextConc]_vars

----------------------------------------------------------------------------
(* Two runs of one configuration and one random_seed *)

\* _simulate_sales: expected_demand, in thousandths of a unit, for a price
\* in mills and an environment in tenths of a degree and of a millimetre
ExpectedDemand(price, msrp, env) ==
    LET price_factor   == Max(100, 1000 - 2 * ((price * 1000) \div msrp - 1000))
        temp_factor    == 1000 + (env.temperature_c - 200)
        rain_factor    == 1000 - Min(100, env.rain_mm)
        traffic_factor == Min(200, 2 * env.traffic_count)
    IN ((((((5 * price_factor) * temp_factor) \div 1000) * rain_factor)
            \div 1000) * traffic_factor) \div 100

RECURSIVE PartialSum(_, _)
PartialSum(es, k) == IF k = 0 THEN 0 ELSE es[k] + PartialSum(es, k - 1)

\* np.random.poisson(lam) for lam < 10: uniforms are multiplied until the
\* product is at most exp(-lam), and the draw is the number of uniforms that
\* kept it above.  es[i] is -log of the i-th uniform the generator yields,
\* in thousandths, so the draw is the number of partial sums below lam.
PoissonDraw(lam, es) ==
    Cardinality({k \in 1..Len(es) : PartialSum(es, k) < lam})

\* np.random.seed(config.random_seed): the seed fixes what the generator
\* yields.  A stream gives, per tick and SKU, the uniforms the demand draw
\* of that SKU consumes (as -log, in thousandths).
SeededStreams ==
    {<<[water |-> <<2000, 2000, 2000>>, milk |-> <<1800, 1800, 1850, 1000>>],
       [water |-> <<5000>>, milk |-> <<1000, 1000, 1000, 3000>>]>>,
     <<[water |-> <<5000>>, milk |-> <<2000, 2000, 2000>>],
       [water |-> <<1000, 5000>>, milk |-> <<7000>>]>>}

\* the draws of the k-th tick
StreamAt(stream, k) == stream[((k - 1) % Len(stream)) + 1]

\* the environment the seeded generator yields for a tick
SeededEnv == Env(200, 0, 50)

\* the quote a deterministic store returns for every order line
SeededQuote == [quote_price |-> 600, quote_delivery_day |-> 3]

\* run_simulation's initial state, for a run of the pair
DetRunStarted ==
    [pc |-> "loop", current_time |-> config.start_date,
     daily_deception_bits |-> 0,
     inventory |-> InventoryState(config.initial_inventory, 0,
                                  [s \in SkuIds |-> 0]),
     results |-> <<[revenue |-> 0, costs |-> 0,
                    gross_margin |-> Margin(0, 0, 0)]>>]

DetRunNew ==
    [pc |-> "new", current_time |-> 0, daily_deception_bits |-> 0,
     inventory |-> NoInventory, results |-> <<>>]

\* SimulationEngine(config, ...) with a fresh adversary, then run_simulation
\* up to the loop
DetStart ==
    /\ \E r \in DOMAIN det.run :
         /\ det.run[r].pc = "new"
         /\ det' = [det EXCEPT !.run[r] = DetRunStarted]
    /\ UNCHANGED <<now, advVars, lastCall, config, pc, current_time, states,
                   engine_ledger, metrics, lastTick, sideVars>>

\* one tick of one run: the numpy draws come from the seeded stream, the
\* adversary's random.random() and random.uniform() draws from Python's
\* generator, which nothing seeds
DetTickResult(run, stream, rolls, u) ==
    LET k        == Len(run.results)
        declined == run.daily_deception_bits >= config.adversary_budget
        avail    == config.adversary_budget - run.daily_deception_bits
        changes  == IF declined THEN 0 ELSE ChangesMade(rolls, avail)
        env      == IF declined THEN SeededEnv
                    ELSE ApplyEnvironmentalChanges(SeededEnv, rolls, avail, u)
        decision == FallbackDecision(run.inventory.stock_levels)
        quotes   == [s \in OrderedSkus(decision.order) |-> SeededQuote]
        demand   == [s \in SkuIds |->
                       PoissonDraw(ExpectedDemand(decision.prices[s],
                                                  sku_list[s].msrp, env),
                                   StreamAt(stream, k)[s])]
        sales    == SimulateSales(decision.prices, run.inventory.stock_levels,
                                  demand)
        inv      == UpdateInventory(run.inventory, sales, decision.order,
                                    quotes)
        revenue  == Revenue(sales, decision.prices)
        costs    == Costs(quotes)
    IN [pc |-> "loop",
        current_time |-> run.current_time + config.tick_minutes,
        daily_deception_bits |-> run.daily_deception_bits + ChangeCost * changes,
        inventory |-> inv,
        results |-> Append(run.results,
                       [revenue |-> revenue, costs |-> costs,
                        gross_margin |->
                            Margin(revenue, costs, SpoilageCost(inv))])]

DetTick ==
    /\ \E r \in DOMAIN det.run :
         /\ det.run[r].pc = "loop"
         /\ det.run[r].current_time < config.end_date
         /\ \E rolls \in [1..3 -> BOOLEAN], u \in UniformDraws :
              det' = [det EXCEPT !.run[r] =
                         DetTickResult(det.run[r], det.stream, rolls, u)]
    /\ UNCHANGED <<now, advVars, lastCall, config, pc, current_time, states,
                   engine_ledger, metrics, lastTick, sideVars>>

\* the loop of one run ends
DetFinish ==
    /\ \E r \in DOMAIN det.run :
         /\ det.run[r].pc = "loop"
         /\ det.run[r].current_time >= config.end_date
         /\ det' = [det EXCEPT !.run[r].pc = "done"]
    /\ UNCHANGED <<now, advVars, lastCall, config, pc, current_time, states,
                   engine_ledger, metrics, lastTick, sideVars>>

\* two engines constructed from one configuration, each seeded from
\* config.random_seed
InitDet ==
    /\ AdversaryInit
    /\ \E cfg \in Configs :
         /\ EngineInit(cfg)
         /\ deception_budget = cfg.adversary_budget
    /\ \E stream \in SeededStreams :
         det = [stream |-> stream, run |-> <<DetRunNew, DetRunNew>>]
    /\ SideInit

NextDet ==
    \/ DetStart
    \/ DetTick
    \/ DetFinish

SpecDet == InitDet /\ [][NextDet]_vars

----------------------------------------------------------------------------
(* Claims about the AdversaryModule, checked under Spec *)

\* C1: after any call to modify_environment, tamper_message or
\* create_latency_spike completes, daily_deception_bits is at most
\* config.deception_budget.
C1_BudgetNeverExceeded == daily_deception_bits <= deception_budget

\* C3: the next budget-consuming call made after the UTC date has advanced
\* past the date of the last reset is not declined for lack of budget,
\* whichever of the three operations it is.
C3_RolloverCallNotDeclined ==
    lastCall.next_after_rollover => ~lastCall.budget_declined

\* C4: when the day's remaining budget is smaller than the cost of one
\* change, modify_environment returns the input's field values, appends no
\* ledger entry and leaves daily_deception_bits unchanged.
C4_SmallRemainderDeclined ==
    (/\ lastCall.op = "modify_environment"
     /\ deception_budget - lastCall.used_at_check < ChangeCost)
    => /\ lastCall.env_out = lastCall.env_in
       /\ Len(ethics_ledger) = lastCall.ledger_before
       /\ daily_deception_bits = lastCall.used_at_check

\* C4 witness: a call made with 0.05 bit remaining (0.25 budget, 0.2 used)
\* that still passed the "usage >= budget" test
C4_Witness ==
    /\ lastCall.op = "modify_environment"
    /\ deception_budget = 25
    /\ lastCall.used_at_check = 20
    /\ ~lastCall.budget_declined

----------------------------------------------------------------------------
(* Claims about a simulation run, checked under SpecRun *)

RECURSIVE DaySum(_, _)
\* the deception bits of the ledger entries timestamped on one UTC day
DaySum(ledger, day) ==
    IF ledger = <<>> THEN 0
    ELSE (IF DateOf(Head(ledger).timestamp) = day
          THEN Head(ledger).deception_bits ELSE 0)
         + DaySum(Tail(ledger), day)

LedgerDays(ledger) == {DateOf(ledger[i].timestamp) : i \in DOMAIN ledger}

\* C2: in the result of a completed run, for every UTC day, the deception
\* bits of the result's ethics_ledger entries of that day sum to at most
\* the configured daily budget plus 0.01.
C2_DailyLedgerWithinBudget ==
    pc = "done" =>
        \A day \in LedgerDays(engine_ledger) :
            DaySum(engine_ledger, day) <= config.adversary_budget + 1

\* C5: from non-negative initial stock, every SKU's stock level is >= 0 in
\* every state of a run, whatever the decisions, quotes and sales draws.
C5_StockNeverNegative ==
    \A i \in DOMAIN states :
        \A s \in DOMAIN states[i].inventory.stock_levels :
            states[i].inventory.stock_levels[s] >= 0

\* a tick was appended whose decision held a negative order quantity, whose
\* delivery arrived at once, and where spoilage exceeded the stock on hand
C5_Witness ==
    /\ lastTick.outcome = "appended"
    /\ "water" \in DOMAIN lastTick.zen_decision.order
    /\ lastTick.zen_decision.order["water"] < 0
    /\ "milk" \in DOMAIN lastTick.store_quotes
    /\ lastTick.store_quotes["milk"].quote_delivery_day <= 1
    /\ SpoiledUnits("milk", PrevState.inventory.spoilage_rates["milk"])
          > PrevState.inventory.spoilage_rates["milk"]
    /\ PrevState.inventory.stock_levels["milk"] = 0

\* C7: when a step of a tick raises, no state is appended for the tick,
\* total_ticks and uptime_ticks are not incremented for it, and the loop goes
\* on to the next scheduled tick time without aborting the run.
C7_FailedTickSkipped ==
    lastTick.outcome = "skipped" =>
        /\ Len(states) = lastTick.states_before
        /\ metrics.total_ticks = lastTick.metrics_before.total_ticks
        /\ metrics.uptime_ticks = lastTick.metrics_before.uptime_ticks
        /\ current_time = lastTick.timestamp
        /\ pc \in {"loop", "done"}

\* a tick that raised after the adversary and the provider had acted, in a
\* run that appended another tick and ran to its end
C7_Witness ==
    /\ lastTick.outcome = "skipped"
    /\ lastTick.provider_invoked
    /\ Len(states) = 2
    /\ pc = "done"

\* C8: run_simulation never propagates an exception, whether the failure is
\* at the initial state or at a later tick.
C8_RunNeverRaises == pc # "raised"

C10_NegativeOrderNeverUsed ==
    lastTick.outcome = "appended" =>
        \A s \in DOMAIN lastTick.zen_decision.order :
            lastTick.zen_decision.order[s] >= 0

----------------------------------------------------------------------------
(* Claims about a pair of runs, checked under SpecDet *)

Abs(x) == IF x < 0 THEN 0 - x ELSE x

\* two gross margins differ by at most 0.01
MarginClose(m1, m2) ==
    /\ m1.den = m2.den
    /\ Abs(m1.num - m2.num) <= (m1.den * SpoilScale) \div 100

\* C6: two runs with the same configuration and the same random_seed have
\* the same number of states and, state by state, revenue, costs and gross
\* margin equal within 0.01.
C6_SameSeedSameResults ==
    (det.run # <<>> /\ \A r \in DOMAIN det.run : det.run[r].pc = "done") =>
        /\ Len(det.run[1].results) = Len(det.run[2].results)
        /\ \A i \in DOMAIN det.run[1].results :
              /\ Abs(det.run[1].results[i].revenue
                     - det.run[2].results[i].revenue) <= 10
              /\ Abs(det.run[1].results[i].costs
                     - det.run[2].results[i].costs) <= 10
              /\ MarginClose(det.run[1].results[i].gross_margin,
                             det.run[2].results[i].gross_margin)

----------------------------------------------------------------------------
(* Claims about construction, checked under SpecCfg *)

\* C11: a configuration with a tick length of zero or less, or with an empty
\* catalog, is rejected at construction: no engine is built and no run is
\* started on one.
C11_MalformedConfigRejected ==
    pc \in {"new", "loop", "done", "raised"} =>
        /\ config.tick_minutes > 0
        /\ DOMAIN config.sku_list # {}

----------------------------------------------------------------------------
(* Further claims about the AdversaryModule, checked under Spec *)

\* C12: two tamper_message calls that are applied on one AdversaryModule are
\* never less than one hour apart.
C12_TampersAnHourApart ==
    \A i, j \in DOMAIN ethics_ledger :
        (/\ i < j
         /\ ethics_ledger[i].action_type = "message_tamper"
         /\ ethics_ledger[j].action_type = "message_tamper")
        => ethics_ledger[j].timestamp - ethics_ledger[i].timestamp
              >= TamperGapHours

----------------------------------------------------------------------------
(* Claims about the decision provider, checked under SpecZen *)

\* every price of a decision lies within the price bounds of its SKU
PricesWithinBounds(decision) ==
    \A s \in DOMAIN decision.prices :
        /\ PriceBoundLow * sku_list[s].msrp <= 100 * decision.prices[s]
        /\ 100 * decision.prices[s] <= PriceBoundHigh * sku_list[s].msrp

\* C13: every price of a decision lies within [0.95 x MSRP, 1.05 x MSRP] of
\* its SKU, on every decision path: the optimizer's result, the heuristic
\* solution and the fallback decisions.
C13_PricesWithinBounds ==
    /\ PricesWithinBounds(zen.optimized)
    /\ PricesWithinBounds(zen.decision)

\* the heuristic solution priced a scarce SKU at the upper bound and the
\* fallback decision priced an abundant one at the lower bound
C13_Witness ==
    /\ zen.path = "solver_none"
    /\ zen.optimized.prices["water"] * 100 = PriceBoundHigh * sku_list["water"].msrp
    /\ zen.decision.prices["milk"] * 100 = PriceBoundLow * sku_list["milk"].msrp

----------------------------------------------------------------------------
(* Claims about the figures of a run, checked under SpecRun *)

\* gross_margin <= 1: num / (SpoilScale * max(revenue, 1e-6)) <= 1
MarginAtMostOne(m) ==
    IF m.den > 0 THEN m.num <= SpoilScale * m.den ELSE m.num <= 0

\* SimulationResult.spoilage_rate =
\* total_spoilage_cost / max(total_costs, 1e-6), as numerator and denominator
SpoilageRate == [num |-> metrics.total_spoilage_cost, den |-> metrics.total_costs]

C15_SalesWithinStock ==
    lastTick.outcome = "appended" =>
        /\ \A s \in SkuIds :
              /\ lastTick.sales[s] >= 0
              /\ lastTick.sales[s] <= lastTick.prev_inventory.stock_levels[s]
              /\ (s \notin DOMAIN lastTick.zen_decision.prices
                  \/ lastTick.prev_inventory.stock_levels[s] <= 0)
                 => lastTick.sales[s] = 0
        /\ PrevState.revenue =
              SumOver(SkuIds,
                      [s \in SkuIds |->
                          IF s \in DOMAIN lastTick.zen_decision.prices
                          THEN lastTick.zen_decision.prices[s] * lastTick.sales[s]
                          ELSE 0])

\* a tick in which the demand for water exceeded its stock, so that all of
\* it was sold, and in which milk was in stock but had no price
C15_Witness ==
    /\ lastTick.outcome = "appended"
    /\ lastTick.prev_inventory.stock_levels["water"] > 0
    /\ lastTick.sales["water"] = lastTick.prev_inventory.stock_levels["water"]
    /\ "milk" \notin DOMAIN lastTick.zen_decision.prices
    /\ lastTick.prev_inventory.stock_levels["milk"] > 0
    /\ lastTick.sales["milk"] = 0
    /\ PrevState.revenue > 0

\* _compile_results: uptime_percentage and average_latency_ms
UptimePercentage ==
    (metrics.uptime_ticks * 100) \div Max(metrics.total_ticks, 1)

AverageLatencyMs ==
    metrics.total_latency_ms \div Max(metrics.decision_count, 1)

\* C16: uptime_ticks <= total_ticks at all times, uptime_ticks is
\* incremented exactly for the appended ticks whose gross margin is >= 0,
\* uptime_percentage lies in [0, 100], average_latency_ms is >= 0, and both
\* are 0 when no tick succeeded.
C16_UptimeAndLatencyInRange ==
    /\ metrics.uptime_ticks <= metrics.total_ticks
    /\ UptimePercentage >= 0 /\ UptimePercentage <= 100
    /\ AverageLatencyMs >= 0
    /\ metrics.total_ticks = 0 => UptimePercentage = 0
    /\ metrics.decision_count = 0 => AverageLatencyMs = 0
    /\ lastTick.outcome = "appended" =>
          /\ metrics.total_ticks = lastTick.metrics_before.total_ticks + 1
          /\ metrics.uptime_ticks =
                lastTick.metrics_before.uptime_ticks
                + (IF PrevState.gross_margin.num >= 0 THEN 1 ELSE 0)
    /\ lastTick.outcome = "skipped" =>
          metrics.uptime_ticks = lastTick.metrics_before.uptime_ticks

\* a run ended with one tick of non-negative and one of negative margin
C16_Witness ==
    /\ pc = "done"
    /\ metrics.total_ticks = 2
    /\ metrics.uptime_ticks = 1
    /\ UptimePercentage = 50
    /\ AverageLatencyMs > 0

----------------------------------------------------------------------------
(* The base cost of an order *)

\* CostModel.base_costs, with base_costs.get(sku_id, 1.0)
BaseCost(s) ==
    IF s = "water" THEN 500
    ELSE IF s = "soda" THEN 750
    ELSE IF s = "juice" THEN 1200
    ELSE IF s = "energy" THEN 1500
    ELSE IF s = "snack" THEN 800
    ELSE IF s = "candy" THEN 600
    ELSE IF s = "healthy" THEN 1800
    ELSE 1000

\* CostModel._calculate_quantity_discount, in percent
QuantityDiscount(qty) ==
    IF qty >= 50 THEN 85
    ELSE IF qty >= 20 THEN 90
    ELSE IF qty >= 10 THEN 95
    ELSE 100

\* CostModel.calculate_cost, per unit: diesel_price 1.45 is below the knee
\* and temperature_factor is 1.0, so both adjustments are 1.0
UnitCost(po) ==
    (BaseCost(po.sku) * QuantityDiscount(po.qty)
        * (IF po.urgency THEN 120 ELSE 100)) \div 10000

\* CostModel.calculate_cost: the base_cost of generate_quote
CalculateCost(po) == UnitCost(po) * po.qty

\* C17: when quote generation fails for an order line the tick is still
\* appended, and the line carries a fallback quote priced at the base cost
\* times 1.15 (the base cost read as the order's computed total, its unit
\* cost, or the catalogue cost of the SKU), with 3-day delivery and a
\* confidence below the standard one.
C17_FallbackQuoteAtBaseCostMargin ==
    lastTick.outcome = "appended" =>
        \A s \in DOMAIN lastTick.store_quotes :
            LET q  == lastTick.store_quotes[s]
                po == PurchaseOrder(s, lastTick.zen_decision.order[s],
                                    lastTick.zen_decision)
            IN q.reason = "Fallback pricing applied" =>
                 /\ q.quote_price \in {(CalculateCost(po) * 115) \div 100,
                                       (UnitCost(po) * 115) \div 100,
                                       (sku_list[s].cost * 115) \div 100}
                 /\ q.quote_delivery_day = 3
                 /\ q.confidence < 90

----------------------------------------------------------------------------

\* C18: with several callers running budget-consuming operations on one
\* AdversaryModule concurrently, every applied call is charged against the
\* usage its check saw, and no two applied calls of one budget day pass
\* their checks against the same usage.
C18_CheckAndChargeAtomic ==
    \A c \in Callers :
        (tasks[c].pc = "done" /\ tasks[c].applied) =>
              /\ tasks[c].used_at_check = tasks[c].used_at_charge
              /\ \A d \in Callers \ {c} :
                    (tasks[d].pc = "done" /\ tasks[d].applied
                        /\ tasks[d].epoch = tasks[c].epoch)
                    => tasks[d].used_at_check # tasks[c].used_at_check

\* three callers were scheduled together; the one scheduled last ran first,
\* and two of them were applied
C18_Witness ==
    /\ \A c \in Callers : tasks[c].pc = "done"
    /\ \E c, d \in Callers :
         /\ tasks[c].submitted < tasks[d].submitted
         /\ tasks[d].finished < tasks[c].finished
         /\ tasks[c].applied /\ tasks[d].applied
         /\ tasks[c].op = "create_latency_spike"
         /\ tasks[d].op = "tamper_message"

----------------------------------------------------------------------------

\* the number of positions of a ledger that hold the entry e
Occurrences(ledger, e) == Cardinality({i \in DOMAIN ledger : ledger[i] = e})

\* C19: every ledger entry the adversary records during a run appears in
\* the run-level ethics_ledger exactly as often as the adversary recorded
\* it, once the tick that logs it is appended and however many ticks
\* follow, and never more often.
C19_LedgerEntriesOnce ==
    \A i \in DOMAIN ethics_ledger :
        LET e == ethics_ledger[i] IN
        /\ Occurrences(engine_ledger, e) <= Occurrences(ethics_ledger, e)
        /\ lastTick.outcome = "appended" =>
              Occurrences(engine_ledger, e) = Occurrences(ethics_ledger, e)

\* C20: for every appended tick, costs equals the sum over the quoted order
\* lines of the quote's unit price times the ordered quantity of the SKU.
C20_CostsArePriceTimesQuantity ==
    lastTick.outcome = "appended" =>
        PrevState.costs =
            SumOver(DOMAIN lastTick.store_quotes,
                    [s \in DOMAIN lastTick.store_quotes |->
                        lastTick.store_quotes[s].quote_price
                            * lastTick.zen_decision.order[s]])

----------------------------------------------------------------------------

\* the restocking targets the two fallback decisions of the code work with
TargetStocks == {10, 20}

\* C21: whenever the decision provider fails, the substituted fallback
\* decision prices every SKU at exactly its MSRP and orders
\* max(0, target_stock - current_stock) units per SKU, for one target stock.
C21_FallbackAtMsrpToTarget ==
    zen.path # "none" =>
        /\ \A s \in SkuIds : zen.decision.prices[s] = sku_list[s].msrp
        /\ \E target \in TargetStocks :
              \A s \in SkuIds :
                  zen.decision.order[s]
                      = Max(0, target - zen.inventory.stock_levels[s])

----------------------------------------------------------------------------

\* the number of fields in which the returned environment differs from the
\* one passed in
FieldsChanged(env_in, env_out) ==
    (IF env_in.temperature_c # env_out.temperature_c THEN 1 ELSE 0)
    + (IF env_in.rain_mm # env_out.rain_mm THEN 1 ELSE 0)
    + (IF env_in.traffic_count # env_out.traffic_count THEN 1 ELSE 0)

----------------------------------------------------------------------------

\* C23: tamper_message and create_latency_spike decline silently: a call
\* that returns applied=false returns the message as given and leaves the
\* ledger, the daily usage and tamper_count as they were; a call that
\* returns applied=true appended exactly one ledger entry of 0.1 bit and
\* raised the daily usage by exactly 0.1.
C23_DeclineLeavesNoTrace ==
    lastCall.op \in {"tamper_message", "create_latency_spike"} =>
        LET rise  == daily_deception_bits - lastCall.used_at_check
            grown == Len(ethics_ledger) - lastCall.ledger_before
        IN
        /\ ~lastCall.applied =>
              /\ lastCall.msg_out = lastCall.msg_in
              /\ grown = 0
              /\ rise = 0
              /\ tamper_count = lastCall.tamper_count_before
        /\ lastCall.applied =>
              /\ grown = 1
              /\ ethics_ledger[Len(ethics_ledger)].deception_bits = 10
              /\ rise = 10
              /\ lastCall.op = "tamper_message" =>
                    tamper_count = lastCall.tamper_count_before + 1

\* a tamper and a latency spike were applied, and the tamper that followed
\* them was declined for the budget
C23_Witness ==
    /\ lastCall.op = "tamper_message"
    /\ ~lastCall.applied
    /\ lastCall.budget_declined
    /\ Len(ethics_ledger) = 2
    /\ ethics_ledger[1].action_type = "message_tamper"
    /\ ethics_ledger[2].action_type = "latency_spike"

----------------------------------------------------------------------------

\* EnvironmentalData: temperature_c in [-10, 45], rain_mm in [0, 50],
\* traffic_count in [0, 300]
EnvironmentInRange(env) ==
    /\ env.temperature_c >= -100 /\ env.temperature_c <= 450
    /\ env.rain_mm >= 0 /\ env.rain_mm <= 500
    /\ env.traffic_count >= 0 /\ env.traffic_count <= 300

\* C24: the environment of every state of a run satisfies the hard ranges
\* of the model, also after the adversary perturbed a baseline value that
\* sits at a range boundary.
C24_EnvironmentInRange ==
    lastTick.outcome = "appended" =>
        (EnvironmentInRange(lastTick.base_environment)
            => EnvironmentInRange(lastTick.environment))

----------------------------------------------------------------------------

\* C25: the daily reset fires only in a call made when the current UTC date
\* is later than the date of last_reset, and moves last_reset to the current
\* time, so it never fires twice for one date; when it fires the call starts
\* from zero usage, zero environmental_changes and zero tamper_count; and
\* in every step without a reset the daily usage does not decrease.
C25_ResetOncePerRollover ==
    [][ /\ last_reset' # last_reset =>
             /\ DateOf(now) > DateOf(last_reset)
             /\ last_reset' = now
             /\ ~(DateOf(now') > DateOf(last_reset'))
             /\ lastCall'.used_at_check = 0
             /\ daily_deception_bits' = ChangeCost * environmental_changes'
             /\ Len(ethics_ledger') - Len(ethics_ledger)
                   = (IF environmental_changes' > 0 THEN 1 ELSE 0)
             /\ tamper_count' = 0
        /\ last_reset' = last_reset =>
             daily_deception_bits' >= daily_deception_bits
      ]_vars

\* a reset has fired on the second day, on usage recorded on the first day,
\* and the call that fired it changed nothing
C25_Witness ==
    /\ lastCall.op = "modify_environment"
    /\ lastCall.rolled
    /\ last_reset = lastCall.time
    /\ DateOf(last_reset) = 1
    /\ Len(ethics_ledger) >= 1
    /\ DateOf(ethics_ledger[1].timestamp) = 0
    /\ daily_deception_bits = 0
    /\ environmental_changes = 0
    /\ tamper_count = 0

----------------------------------------------------------------------------

\* ceil((end_date - start_date) / tick_minutes), for tick_minutes >= 1
TicksDue ==
    LET span == config.end_date - config.start_date IN
    IF span <= 0 THEN 0
    ELSE (span + config.tick_minutes - 1) \div config.tick_minutes

\* the number of ticks attempted so far
TicksAttempted == (current_time - config.start_date) \div config.tick_minutes

\* C26: with tick_minutes >= 1, run_simulation terminates; every iteration
\* of its loop attempts the tick at the next multiple of tick_minutes after
\* start_date, whatever the wall clock and the provider's latency; and when
\* the loop ends the ticks attempted are those at start + k x tick_minutes
\* for k = 1 .. ceil((end - start) / tick_minutes).
C26_TerminatesOnSchedule ==
    /\ []((pc \in {"loop", "done"} /\ config.tick_minutes >= 1) =>
            /\ current_time
                  = config.start_date + TicksAttempted * config.tick_minutes
            /\ TicksAttempted <= TicksDue
            /\ lastTick.outcome \in {"appended", "skipped"} =>
                  lastTick.timestamp = current_time
            /\ pc = "done" => TicksAttempted = TicksDue)
    /\ [][(pc = "loop" /\ config.tick_minutes >= 1
              /\ lastTick' # lastTick) =>
                /\ current_time' = current_time + config.tick_minutes
                /\ lastTick'.timestamp = current_time']_vars
    /\ ((pc = "new" /\ config.tick_minutes >= 1)
            ~> (pc \in {"done", "raised"}))

\* a run with a tick length of 20 minutes over 30 minutes has ended after
\* the ticks at 20 and 40, the second of them skipped
C26_Witness ==
    /\ pc = "done"
    /\ config.tick_minutes = 20
    /\ config.end_date - config.start_date = 30
    /\ current_time = 40
    /\ TicksAttempted = 2
    /\ Len(states) = 2
    /\ lastTick.outcome = "skipped"

----------------------------------------------------------------------------

\* the stock of s after the sales and the deliveries of the last tick
OnHandBeforeSpoilage(s) ==
    Max(0, lastTick.prev_inventory.stock_levels[s] - lastTick.sales[s])
    + (IF s \in DOMAIN lastTick.store_quotes
          /\ lastTick.store_quotes[s].quote_delivery_day <= 1
       THEN lastTick.zen_decision.order[s]
       ELSE 0)

\* int(0.01 * stock / shelf_life_days * stock)
SpoilageDecay(s, stock) ==
    (stock * stock) \div (100 * config.sku_list[s].shelf_life_days)

\* C27 as stated: after a successful tick the stock of each SKU is
\* max(0, previous stock - units sold), plus the ordered quantity if and
\* only if the SKU's quote has delivery day <= 1, minus the integer spoilage
\* decay.
C27_StockMinusSpoilage ==
    lastTick.outcome = "appended" =>
        \A s \in DOMAIN lastTick.prev_inventory.stock_levels :
            PrevState.inventory.stock_levels[s]
                = OnHandBeforeSpoilage(s)
                    - SpoilageDecay(s, OnHandBeforeSpoilage(s))

\* C27, amended: the stock after a successful tick is that figure where it
\* is positive and zero otherwise, the spoilage decay being capped by the
\* stock it is taken from; an order whose quote has delivery day > 1 is not
\* added to the stock.
C27_StockUpdate ==
    lastTick.outcome = "appended" =>
        \A s \in DOMAIN lastTick.prev_inventory.stock_levels :
            PrevState.inventory.stock_levels[s]
                = Max(0, OnHandBeforeSpoilage(s)
                            - SpoilageDecay(s, OnHandBeforeSpoilage(s)))

\* the second tick of a run ordered water on a 3-day quote, and the stock of
\* water has not grown in either tick
C27_Witness ==
    /\ Len(states) = 3
    /\ lastTick.outcome = "appended"
    /\ "water" \in DOMAIN lastTick.store_quotes
    /\ lastTick.store_quotes["water"].quote_delivery_day > 1
    /\ lastTick.zen_decision.order["water"] > 0
    /\ states[3].inventory.stock_levels["water"]
          = Max(0, states[2].inventory.stock_levels["water"]
                    - lastTick.sales["water"])
    /\ states[2].inventory.stock_levels["water"]
          <= states[1].inventory.stock_levels["water"]

----------------------------------------------------------------------------

\* C28: the timestamps of the states of a run are strictly increasing, and
\* every tick computes from the inventory of the state that was appended
\* last, also when the tick before it was skipped.
C28_TicksSequential ==
    /\ \A i \in 1..(Len(states) - 1) :
          states[i].timestamp < states[i + 1].timestamp
    /\ lastTick.outcome = "appended" =>
          /\ Len(states) = lastTick.states_before + 1
          /\ states[Len(states)].timestamp = lastTick.timestamp
          /\ lastTick.prev_inventory = states[Len(states) - 1].inventory

\* the first tick of a run was skipped and the second one was appended,
\* computed from the initial inventory
C28_Witness ==
    /\ lastTick.outcome = "appended"
    /\ Len(states) = 2
    /\ states[1].timestamp = config.start_date
    /\ states[2].timestamp = config.start_date + 2 * config.tick_minutes
    /\ lastTick.prev_inventory.stock_levels = config.initial_inventory

----------------------------------------------------------------------------

\* the sum of one figure over the first n states of the run
RECURSIVE SumStates(_, _)
SumStates(n, field) ==
    IF n = 0 THEN 0 ELSE states[n][field] + SumStates(n - 1, field)

\* C29: no partial tick is recorded: once the initial state is built, and so
\* at the end of the run, len(states) = 1 + total_ticks, decision_count =
\* total_ticks, and total_revenue, total_costs and total_spoilage_cost are
\* the sums of the figures of the appended states; a skipped tick leaves
\* the metrics as they were and an appended tick is counted once.
C29_NoPartialTick ==
    /\ pc \in {"loop", "done"} =>
          /\ Len(states) = 1 + metrics.total_ticks
          /\ metrics.decision_count = metrics.total_ticks
          /\ metrics.total_revenue = SumStates(Len(states), "revenue")
          /\ metrics.total_costs = SumStates(Len(states), "costs")
          /\ metrics.total_spoilage_cost
                = SumStates(Len(states), "spoilage_cost")
    /\ lastTick.outcome = "skipped" =>
          /\ metrics = lastTick.metrics_before
          /\ Len(states) = lastTick.states_before
    /\ lastTick.outcome = "appended" =>
          /\ metrics.decision_count = lastTick.metrics_before.decision_count + 1
          /\ metrics.total_ticks = lastTick.metrics_before.total_ticks + 1

\* a run has ended with one tick skipped after the provider had been called
\* and one tick appended with costs and revenue
C29_Witness ==
    /\ pc = "done"
    /\ Len(states) = 2
    /\ metrics.total_ticks = 1
    /\ lastTick.outcome = "skipped"
    /\ lastTick.provider_invoked
    /\ metrics.total_costs > 0
    /\ metrics.total_revenue > 0

\* C30: every tick in which the decision provider was invoked is recorded in
\* the metrics, whether or not the call or the rest of the tick succeeded:
\* decision_count is one more than before the tick and total_latency_ms has
\* not shrunk.
C30_ProviderCallRecorded ==
    lastTick.provider_invoked =>
        /\ metrics.decision_count = lastTick.metrics_before.decision_count + 1
        /\ metrics.total_latency_ms >= lastTick.metrics_before.total_latency_ms

----------------------------------------------------------------------------

\* C31: the daily budget of a run is its configured adversary_budget, which
\* the engine passes to modify_environment: when it is smaller than the
\* module's own deception_budget, the bits charged in one day still never
\* exceed the run's adversary_budget.
C31_RunBudgetBoundsPerturbation ==
    config.adversary_budget < deception_budget =>
        daily_deception_bits <= config.adversary_budget

\* C32: modify_environment never mutates the EnvironmentalData it is given:
\* it returns that same object or a separate copy, and the fields of the
\* object it was given are the same after the call as before it.
C32_ArgumentNotMutated ==
    lastCall.op = "modify_environment" =>
        /\ lastCall.env_after = lastCall.env_in
        /\ lastCall.env_returned \in {"argument", "copy"}
        /\ lastCall.env_returned = "argument" =>
              lastCall.env_out = lastCall.env_in

\* a call that changed fields returned a copy and left its argument as it was
C32_Witness ==
    /\ lastCall.op = "modify_environment"
    /\ lastCall.applied
    /\ lastCall.env_returned = "copy"
    /\ lastCall.env_out # lastCall.env_in
    /\ lastCall.env_after = lastCall.env_in

\* C33: days_since_restock is 0 in the initial state, is reset to 0 by every
\* tick whose decision places an order (any non-zero quantity, delivered or
\* not), otherwise grows by the tick length, and is never negative.
C33_DaysSinceRestock ==
    /\ Len(states) >= 1 => states[1].inventory.days_since_restock = 0
    /\ \A i \in 1..Len(states) : states[i].inventory.days_since_restock >= 0
    /\ lastTick.outcome = "appended" =>
          LET order == lastTick.zen_decision.order
              days  == states[Len(states)].inventory.days_since_restock
          IN IF \E s \in DOMAIN order : order[s] # 0
             THEN days = 0
             ELSE days = lastTick.prev_inventory.days_since_restock
                           + config.tick_minutes

\* after a tick without an order the count stood at one tick length, and a
\* tick that ordered without any delivery has put it back to 0
C33_Witness ==
    /\ lastTick.outcome = "appended"
    /\ lastTick.prev_inventory.days_since_restock = config.tick_minutes
    /\ \E s \in DOMAIN lastTick.zen_decision.order :
          lastTick.zen_decision.order[s] > 0
    /\ DOMAIN lastTick.store_quotes # {}
    /\ \A s \in DOMAIN lastTick.store_quotes :
          lastTick.store_quotes[s].quote_delivery_day > 1
    /\ states[Len(states)].inventory.days_since_restock = 0

\* one ledger carries on another: every entry of old is still in new, in the
\* same place and with the same content
IsPrefix(old, new) ==
    /\ Len(old) <= Len(new)
    /\ \A i \in 1..Len(old) : new[i] = old[i]

\* C34: the adversary's ledger and the run-level ledger are append-only: no
\* step, the daily reset included, removes, reorders or alters an entry
\* that was already appended, and their lengths never decrease.
C34_LedgersAppendOnly ==
    [][/\ IsPrefix(ethics_ledger, ethics_ledger')
       /\ IsPrefix(engine_ledger, engine_ledger')]_vars

\* a tick's call rolled the day over and reset the budget with an entry
\* already in the ledger, and appended a later one behind it
C34_Witness ==
    /\ lastTick.outcome = "appended"
    /\ lastCall.op = "modify_environment"
    /\ lastCall.rolled
    /\ lastCall.ledger_before >= 1
    /\ Len(ethics_ledger) = lastCall.ledger_before + 1
    /\ ethics_ledger[1].timestamp < ethics_ledger[Len(ethics_ledger)].timestamp
    /\ Len(engine_ledger) >= 3

\* the deception_bits of the entries of a ledger behind its first k
RECURSIVE BitsBehind(_, _)
BitsBehind(ledger, k) ==
    IF k >= Len(ledger) THEN 0
    ELSE ledger[Len(ledger)].deception_bits
           + BitsBehind(SubSeq(ledger, 1, Len(ledger) - 1), k)

\* C35: between operations daily_deception_bits is the sum of the
\* deception_bits of the ledger entries appended since the last daily reset:
\* it starts at 0 with an empty ledger, and every step changes it by exactly
\* the bits of the entries that step appends, counted from 0 when the step
\* resets the day.
C35_ChargesMatchLedger ==
    /\ (ethics_ledger = <<>> /\ lastCall.op = "none") =>
          daily_deception_bits = 0
    /\ [][daily_deception_bits'
             = (IF last_reset' # last_reset THEN 0 ELSE daily_deception_bits)
               + BitsBehind(ethics_ledger', Len(ethics_ledger))]_vars

\* a spike was charged after a reset: the ledger holds two entries of 0.1
\* bit, one from before the reset, and the day's count is 0.1
C35_Witness ==
    /\ lastCall.op = "create_latency_spike"
    /\ lastCall.applied
    /\ DateOf(last_reset) > DateOf(ethics_ledger[1].timestamp)
    /\ Len(ethics_ledger) = 2
    /\ ethics_ledger[1].deception_bits = 10
    /\ ethics_ledger[2].deception_bits = 10
    /\ daily_deception_bits = 10

----------------------------------------------------------------------------
(* StoreAgent, and a run whose store agent is a StoreAgent *)

\* base_lead_times["snack"]
BaseLeadTimeSnack == 1

\* base_lead_times.get(sku_category, 2): generate_quote passes no category,
\* so it is "beverage"
BaseLeadTime == 2

\* LeadTimeModel._calculate_quantity_factor, in tenths
QuantityFactor(qty) ==
    IF qty >= 100 THEN 15
    ELSE IF qty >= 50 THEN 12
    ELSE IF qty >= 20 THEN 11
    ELSE 10

\* LeadTimeModel.calculate_lead_time(quantity, 0, urgency):
\* max(1, ceil(base_time * quantity_factor * 1.0 * urgency_factor))
CalculateLeadTime(qty, urgency) ==
    LET hundredths == BaseLeadTime * QuantityFactor(qty)
                        * (IF urgency THEN 7 ELSE 10)
    IN Max(1, (hundredths + 99) \div 100)

\* the draws of one generate_quote call: whether the try block raises
\* (llm_response is None), whether _apply_strategy exaggerates the ETA
\* (reputation above the threshold and random.random() < 0.3), and
\* min(max_eta_exaggeration, random.uniform(0.1, 0.25)) in percent
StoreAgentDraws ==
    {[failed |-> f, exaggerate |-> e, pct |-> x] :
        f \in BOOLEAN, e \in BOOLEAN, x \in {10, 25}}

\* StoreAgent._apply_strategy and the StoreQuote built from it, at the
\* initial reputation of 4.5
ApplyStrategy(po, d) ==
    LET margin    == IF po.urgency THEN 20 ELSE 12
        lead_time == CalculateLeadTime(po.qty, po.urgency)
    IN [quote_price |-> Min((CalculateCost(po) * (100 + margin)) \div 100,
                            po.max_price),
        quote_delivery_day |->
            IF po.urgency /\ d.exaggerate
            THEN (lead_time * (100 + d.pct)) \div 100
            ELSE lead_time,
        confidence |-> IF po.qty > 50 THEN 81 ELSE 90,
        reason |-> "Standard pricing applied"]

\* StoreAgent.generate_quote
GenerateQuote(po, d) ==
    IF d.failed THEN FallbackQuote(po) ELSE ApplyStrategy(po, d)

\* store_quotes of a tick whose store agent is a StoreAgent
StoreAgentQuotes(decision) ==
    {[s \in OrderedSkus(decision.order) |->
         GenerateQuote(PurchaseOrder(s, decision.order[s], decision), d)] :
       d \in StoreAgentDraws}

\* one iteration of the loop, the quotes coming from a StoreAgent
RunTickStoreAgent ==
    /\ pc = "loop"
    /\ LoopContinues
    /\ current_time' = current_time + config.tick_minutes
    /\ \E dwell \in DwellDraws :
         IF GenerateFails(dwell)
         THEN /\ TickSkipped(current_time', FALSE, FALSE)
              /\ UNCHANGED <<advVars, lastCall>>
         ELSE \E base \in GeneratedEnvs, a \in AdversaryDraws,
                 p \in ProviderOutcomes(PrevState.inventory.stock_levels) :
              /\ ModifyEnvironmentCall(base, a.rolls, a.u)
              /\ IF PurchaseOrderFails(p.decision.order)
                 THEN TickSkipped(current_time', TRUE, p.failed)
                 ELSE \E quotes \in StoreAgentQuotes(p.decision),
                         demand \in DemandVectors, latency \in LatencyDraws :
                      TickSucceeds(current_time', base,
                                   ModOut(base, a.rolls, a.u), p, quotes,
                                   demand, latency)
    /\ UNCHANGED <<now, config, pc, det, sideVars>>

NextStore ==
    \/ StartRun
    \/ RunTickStoreAgent
    \/ Finish

SpecStore == InitRun /\ [][NextStore]_vars

\* order quantities on both sides of every step of the quantity factor
QuoteQuantities == {1, 19, 20, 49, 50, 99, 100, 120}

\* C36: every quote StoreAgent produces, on the normal and on the fallback
\* path, has quote_delivery_day >= 2; so in a run with a StoreAgent no
\* ordered quantity is added to stock, and the stock level of each SKU never
\* rises from one state to the next.
C36_StoreAgentNeverDelivers ==
    /\ \A s \in SkuIds, qty \in QuoteQuantities, u \in BOOLEAN,
          d \in StoreAgentDraws :
          GenerateQuote(PurchaseOrder(s, qty, [expedite |-> u]), d)
              .quote_delivery_day >= 2
    /\ \A s \in DOMAIN lastTick.store_quotes :
          lastTick.store_quotes[s].quote_delivery_day >= 2
    /\ \A i \in 1..(Len(states) - 1) :
          \A s \in DOMAIN states[i].inventory.stock_levels :
             states[i + 1].inventory.stock_levels[s]
                <= states[i].inventory.stock_levels[s]

\* an expedited order of more than 100 units was quoted on the normal path
\* for delivery on day 3, and the stock of the SKU did not rise
C36_Witness ==
    /\ lastTick.outcome = "appended"
    /\ \E s \in DOMAIN lastTick.store_quotes :
          /\ lastTick.zen_decision.expedite
          /\ lastTick.zen_decision.order[s] > 100
          /\ lastTick.store_quotes[s].reason = "Standard pricing applied"
          /\ lastTick.store_quotes[s].quote_delivery_day = 3
          /\ states[Len(states)].inventory.stock_levels[s]
                <= lastTick.prev_inventory.stock_levels[s]

----------------------------------------------------------------------------

\* C37: tamper_message leaves the caller's message untouched: after the call
\* the input message, its prices and order maps included, holds the values
\* it had before the call, whether or not tampering was applied.
C37_CallerMessageUntouched ==
    lastCall.op = "tamper_message" => lastCall.msg_after = lastCall.msg_in

----------------------------------------------------------------------------
(* OrderBook *)

\* the book is bounded by the number of resting orders
MaxBook == 3

OrderPrices == {9, 10, 11}

\* Order.quantity is an int nothing validates
OrderQuantities == {-1, 0, 1, 2}

Orders ==
    {[side |-> sd, price |-> pr, quantity |-> q] :
        sd \in {"buy", "sell"}, pr \in OrderPrices, q \in OrderQuantities}

\* list.sort(key=lambda x: x.price[, reverse=True]) is stable: insertion of
\* each element behind the elements that may not come after it
RECURSIVE StableSort(_, _)
StableSort(orders, reverse) ==
    IF orders = <<>> THEN <<>>
    ELSE LET n      == Len(orders)
             sorted == StableSort(SubSeq(orders, 1, n - 1), reverse)
             x      == orders[n]
             keep   == {i \in 1..Len(sorted) :
                          IF reverse THEN sorted[i].price >= x.price
                          ELSE sorted[i].price <= x.price}
             k      == IF keep = {} THEN 0
                       ELSE CHOOSE i \in keep : \A j \in keep : j <= i
         IN SubSeq(sorted, 1, k) \o <<x>> \o SubSeq(sorted, k + 1, Len(sorted))

\* the loop also stops at an ask of the bid's own price
BidStopsAtEqual(bid, best_ask) == bid.price <= best_ask.price

\* _match_bid: "if bid.price < best_ask.price: break"
BidStops(bid, best_ask) == bid.price < best_ask.price

\* _match_ask: "if ask.price > best_bid.price: break"
AskStops(ask, best_bid) == ask.price > best_bid.price

\* one pass of the while loop of _match_bid or _match_ask against the best
\* resting order of the other side, and the passes after it
RECURSIVE Match(_, _, _)
Match(order, resting, made) ==
    IF order.quantity > 0 /\ resting # <<>>
       /\ ~(IF order.side = "buy" THEN BidStops(order, resting[1])
                                  ELSE AskStops(order, resting[1]))
    THEN LET best == resting[1]
             qty  == Min(order.quantity, best.quantity)
             left == IF best.quantity - qty = 0 THEN Tail(resting)
                     ELSE <<[best EXCEPT !.quantity = @ - qty]>>
                            \o Tail(resting)
         IN Match([order EXCEPT !.quantity = @ - qty], left,
                  Append(made, [price |-> best.price, quantity |-> qty]))
    ELSE [order |-> order, resting |-> resting, trades |-> made]

\* OrderBook.add_order(order)
AddOrder ==
    \E order \in Orders :
       LET m == Match(order, IF order.side = "buy" THEN asks ELSE bids, <<>>)
           rests == m.order.quantity > 0
       IN
       /\ IF order.side = "buy"
          THEN /\ asks' = m.resting
               /\ bids' = IF rests
                          THEN StableSort(Append(bids, m.order), TRUE)
                          ELSE bids
          ELSE /\ bids' = m.resting
               /\ asks' = IF rests
                          THEN StableSort(Append(asks, m.order), FALSE)
                          ELSE asks
       /\ Len(bids') + Len(asks') <= MaxBook
       /\ trades' = m.trades
       /\ UNCHANGED <<now, advVars, lastCall, config, pc, current_time,
                      states, engine_ledger, metrics, lastTick, det, zen,
                      tasks, requests, granted>>

InitBook ==
    /\ AdversaryInit
    /\ deception_budget = DefaultConfig.adversary_budget
    /\ EngineInit(DefaultConfig)
    /\ det = NoDet
    /\ SideInit

NextBook == AddOrder

SpecBook == InitBook /\ [][NextBook]_vars

\* C38: after any sequence of add_order calls the book is well formed: with
\* both sides non-empty the best bid is strictly below the best ask, bids
\* are ordered high to low and asks low to high, and every resting order
\* has a quantity above 0.
C38_BookWellFormed ==
    /\ (bids # <<>> /\ asks # <<>>) => bids[1].price < asks[1].price
    /\ \A i \in 1..(Len(bids) - 1) : bids[i].price >= bids[i + 1].price
    /\ \A i \in 1..(Len(asks) - 1) : asks[i].price <= asks[i + 1].price
    /\ \A i \in 1..Len(bids) : bids[i].quantity > 0
    /\ \A i \in 1..Len(asks) : asks[i].quantity > 0

\* an order has just traded against two resting orders, filling the first
\* and part of the second, and both sides of the book hold orders
C38_Witness ==
    /\ Len(trades) = 2
    /\ bids # <<>>
    /\ asks # <<>>
    /\ \E i \in 1..Len(asks) : asks[i].quantity = 1

----------------------------------------------------------------------------
(* RateLimiter; the clock counts seconds here *)

\* RateLimiter(max_requests=2, window_seconds=2)
MaxRequests == 2
WindowSeconds == 2

\* the calls recorded per identifier are bounded
MaxGranted == 3

\* "Clean old entries": the entries of requests newer than the cutoff
RecentRequests ==
    LET cutoff == now - WindowSeconds
        recent == {k \in DOMAIN requests : requests[k] > cutoff}
    IN [k \in recent |-> requests[k]]

\* RateLimiter.is_allowed(identifier)
IsAllowed ==
    \E identifier \in Identifiers :
       LET current_requests == Cardinality(DOMAIN RecentRequests) IN
       /\ Len(granted[identifier]) < MaxGranted
       /\ IF current_requests >= MaxRequests
          THEN /\ requests' = RecentRequests
               /\ UNCHANGED granted
          ELSE /\ requests' =
                     [k \in DOMAIN RecentRequests \cup {identifier} |->
                         IF k = identifier THEN now ELSE RecentRequests[k]]
               /\ granted' =
                     [granted EXCEPT ![identifier] = Append(@, now)]
       /\ UNCHANGED <<now, advVars, lastCall, config, pc, current_time,
                      states, engine_ledger, metrics, lastTick, det, zen,
                      tasks, bids, asks, trades>>

InitLimiter ==
    /\ AdversaryInit
    /\ deception_budget = DefaultConfig.adversary_budget
    /\ EngineInit(DefaultConfig)
    /\ det = NoDet
    /\ SideInit

NextLimiter ==
    \/ AdvanceClock
    \/ IsAllowed

SpecLimiter == InitLimiter /\ [][NextLimiter]_vars

\* C39: for any identifier, is_allowed returns True for at most max_requests
\* of the calls that identifier makes within any interval of window_seconds.
C39_AtMostMaxRequestsPerWindow ==
    \A identifier \in Identifiers :
       \A i \in 1..Len(granted[identifier]) :
          Cardinality({j \in i..Len(granted[identifier]) :
                         granted[identifier][j]
                            < granted[identifier][i] + WindowSeconds})
             <= MaxRequests

====
